---- MODULE Spec2Model ----
(***************************************************************************)
(* A model of notegraph: a directory of note files is loaded into a Model  *)
(* of Nodes (Model::read, Node::parse, render_typst_to_svg,                *)
(* TypstWorld::new), references in the text become edges                   *)
(* (Node::get_connections, Model::get_edges), and the Model is served      *)
(* over HTTP (server.rs).                                                  *)
(*                                                                         *)
(* Text is a sequence of one-character strings.  Option<T> is a sequence   *)
(* of length 0 (None) or 1 (Some).                                         *)
(***************************************************************************)
EXTENDS Integers, Sequences, FiniteSets, TLC

VARIABLES
    dirOk,        \* whether fs::read_dir(dir) opens the directory
    dir,          \* what the directory enumeration yields, in its order
    pc,           \* position of main: "main", "read_loop", "serving", "panicked"
    idx,          \* number of entries Model::read has consumed
    files,        \* Model::read's local `files`
    readResult,   \* None, or Some of "Ok" / "NotADir" / "CantParseNode"
    model,        \* None, or Some(nodes) of the Model returned by Model::read
    renderLog,    \* every render_typst_to_svg call so far: [entry, code, result]
    response,     \* None, or the last HTTP response [route, body]
    gePc,         \* Model::get_edges: "idle", "mapping", "done"
    res,          \* get_edges' `res`: one slot per node, None until written
    mapped,       \* the node indices whose map closure has completed
    edges,        \* None, or Some(the list get_edges returned)
    sysFonts,     \* TypstWorld::new: "Err" (SystemFonts::new fails), "NoDb" (all_fonts is None), "Ok"
    families,     \* TypstWorld::new: the system font families, in iteration order
    embedded,     \* TypstWorld::new: what loading the embedded font does
    fPc,          \* TypstWorld::new: "system", "fallback", "check", "done"
    fIdx,         \* TypstWorld::new: number of families the loop has visited
    fonts,        \* TypstWorld::new: `fonts`
    font_book,    \* TypstWorld::new: `font_book`
    tried,        \* TypstWorld::new: the font candidates tried, in order
    worldResult   \* None, or Some of "Ok" / "NoFonts"

loadVars == <<dirOk, dir, pc, idx, files, readResult, model, renderLog>>
serveVars == <<response>>
graphVars == <<gePc, res, mapped, edges>>
fontVars == <<sysFonts, families, embedded, fPc, fIdx, fonts, font_book, tried, worldResult>>
vars == <<loadVars, serveVars, graphVars, fontVars>>

----------------------------------------------------------------------------
(* Bounds of the model *)

MaxEntries == 3
MaxTokens == 5
MaxChars == 4
MaxFamilies == 3

----------------------------------------------------------------------------
(* Option and sequence helpers *)

None == <<>>
Some(x) == <<x>>

RECURSIVE Concat(_)
Concat(ss) == IF ss = <<>> THEN <<>> ELSE Head(ss) \o Concat(Tail(ss))

RECURSIVE SeqsUpTo(_, _)
SeqsUpTo(S, n) ==
    IF n = 0 THEN {<<>>}
    ELSE LET shorter == SeqsUpTo(S, n - 1)
         IN  shorter \cup {Append(s, x) : s \in {t \in shorter : Len(t) = n - 1}, x \in S}

----------------------------------------------------------------------------
(* Characters and str methods *)

\* char::is_whitespace, used by str::trim and by the regex class \s
IsSpaceChar(c) == c \in {" ", "\n"}

\* the regex class \w
IsWordChar(c) == c \in {"a", "b", "c", "A", "B", "C", "_"}

RECURSIVE TrimStart(_)
TrimStart(s) == IF s # <<>> /\ IsSpaceChar(Head(s)) THEN TrimStart(Tail(s)) ELSE s

RECURSIVE TrimEnd(_)
TrimEnd(s) ==
    IF s # <<>> /\ IsSpaceChar(s[Len(s)]) THEN TrimEnd(SubSeq(s, 1, Len(s) - 1)) ELSE s

\* str::trim
Trim(s) == TrimEnd(TrimStart(s))

\* str::find of one character: its first index, 0 when absent
RECURSIVE FindFrom(_, _, _)
FindFrom(s, c, i) ==
    IF i > Len(s) THEN 0 ELSE IF s[i] = c THEN i ELSE FindFrom(s, c, i + 1)

\* the last index of a character, 0 when absent
RECURSIVE FindLast(_, _, _)
FindLast(s, c, i) ==
    IF i < 1 THEN 0 ELSE IF s[i] = c THEN i ELSE FindLast(s, c, i - 1)

\* The split is made at the last newline.
RSplitOnce(content) ==
    LET i == FindLast(content, "\n", Len(content))
    IN  IF i = 0 THEN None
        ELSE Some(<<SubSeq(content, 1, i - 1), SubSeq(content, i + 1, Len(content))>>)

\* str::split_once("\n")
SplitOnce(content) ==
    LET i == FindFrom(content, "\n", 1)
    IN  IF i = 0 THEN None
        ELSE Some(<<SubSeq(content, 1, i - 1), SubSeq(content, i + 1, Len(content))>>)

\* content.split_once("\n").unwrap_or((content.as_str(), ""))
SplitShortLong(content) ==
    LET sp == SplitOnce(content)
    IN  IF sp = None THEN <<content, <<>>>> ELSE sp[1]

StartsWith(s, c) == s # <<>> /\ s[1] = c
Contains(s, c) == \E i \in 1..Len(s) : s[i] = c

----------------------------------------------------------------------------
(* convert_case: to_case(Case::Title) *)

IsLower(c) == c \in {"a", "b", "c"}
IsUpper(c) == c \in {"A", "B", "C"}
IsDelimiter(c) == c \in {"_", "-", " "}

ToUpper(c) ==
    CASE c = "a" -> "A" [] c = "b" -> "B" [] c = "c" -> "C" [] OTHER -> c

ToLower(c) ==
    CASE c = "A" -> "a" [] c = "B" -> "b" [] c = "C" -> "c" [] OTHER -> c

\* the words of an identifier: split at delimiters and at lower-to-upper transitions
RECURSIVE SplitWords(_, _, _)
SplitWords(s, i, cur) ==
    LET flush == IF cur = <<>> THEN <<>> ELSE <<cur>>
    IN  IF i > Len(s) THEN flush
        ELSE IF IsDelimiter(s[i]) THEN flush \o SplitWords(s, i + 1, <<>>)
        ELSE IF cur # <<>> /\ IsLower(cur[Len(cur)]) /\ IsUpper(s[i])
             THEN <<cur>> \o SplitWords(s, i + 1, <<s[i]>>)
        ELSE SplitWords(s, i + 1, Append(cur, s[i]))

Capitalize(w) == [i \in 1..Len(w) |-> IF i = 1 THEN ToUpper(w[i]) ELSE ToLower(w[i])]

RECURSIVE JoinWords(_)
JoinWords(ws) ==
    IF ws = <<>> THEN <<>>
    ELSE IF Len(ws) = 1 THEN Capitalize(ws[1])
    ELSE Capitalize(ws[1]) \o <<" ">> \o JoinWords(Tail(ws))

TitleCase(name) == JoinWords(SplitWords(name, 1, <<>>))

----------------------------------------------------------------------------
(* render_typst_to_svg *)

\* What the environment does to one rendering: whether TypstWorld::new finds a
\* font, whether typst::compile succeeds, and how many pages the document has.
RenderEnvs == [world : {"Ok", "NoFonts"}, compile : {"Ok", "Err"}, pages : 0..2]

\* typst_svg::svg(frame), as its tags
TypstSvg(code) == <<"<svg", "<rect", "<g">> \o code \o <<"</svg>">>

\* svg.replace("<rect", "<rect fill=\"none\"")
MakeTransparent(svg) ==
    [i \in 1..Len(svg) |-> IF svg[i] = "<rect" THEN "<rect fill=none" ELSE svg[i]]

\* Result<String>: <<"Ok", svg>> or <<"Err", kind>>
RenderTypstToSvg(code, env) ==
    IF env.world # "Ok" THEN <<"Err", "NoFontsAvailable">>
    ELSE IF env.compile # "Ok" THEN <<"Err", "CompileError">>
    ELSE IF env.pages = 0 THEN <<"Err", "EmptyDocument">>
    ELSE <<"Ok", MakeTransparent(TypstSvg(code))>>

----------------------------------------------------------------------------
(* Node::parse *)

\* the format! template around the trimmed long text
TypstCode(long_trimmed) == <<"#set page", "#set text">> \o long_trimmed

\* A '#' anywhere counts, not only at the start.
IsStyledAnyHash(long_trimmed) == Contains(long_trimmed, "#") \/ Contains(long_trimmed, "$")

\* "Only try to render as Typst if the content looks like Typst code"
IsStyled(long_trimmed) == StartsWith(long_trimmed, "#") \/ Contains(long_trimmed, "$")

\* the render_typst_to_svg call Node::parse makes, if any, with its result
RenderAttempt(long_trimmed, env) ==
    IF IsStyled(long_trimmed)
    THEN Some([code |-> TypstCode(long_trimmed),
               result |-> RenderTypstToSvg(TypstCode(long_trimmed), env)])
    ELSE None

\* match render_typst_to_svg(..) { Ok(svg) => Some(svg), Err(e) => None }, else None
LongTextSvg(long_trimmed, env) ==
    LET a == RenderAttempt(long_trimmed, env)
    IN  IF a # None /\ a[1].result[1] = "Ok" THEN Some(a[1].result[2]) ELSE None

\* A render failure aborts the parse.
NodeParseStrict(entry, env) ==
    IF entry.kind # "file" THEN None
    ELSE LET sl == SplitShortLong(entry.content)
             long_trimmed == Trim(sl[2])
         IN  IF IsStyled(long_trimmed) /\ RenderTypstToSvg(TypstCode(long_trimmed), env)[1] # "Ok"
             THEN None
             ELSE Some([id |-> entry.name, title |-> TitleCase(entry.name),
                        short |-> Trim(sl[1]), long |-> long_trimmed,
                        long_text_svg |-> LongTextSvg(long_trimmed, env)])

\* Option<Node> for one directory entry.  entry.kind is "enum_err" (the
\* enumeration yields an error: file.ok() is None), "bad_name" (to_str() is
\* None), "unreadable" (read_to_string fails) or "file".
NodeParse(entry, env) ==
    IF entry.kind = "enum_err" THEN None
    ELSE IF entry.kind = "bad_name" THEN None
    ELSE IF entry.kind = "unreadable" THEN None
    ELSE LET sl == SplitShortLong(entry.content)
             long_trimmed == Trim(sl[2])
         IN  Some([id |-> entry.name, title |-> TitleCase(entry.name),
                   short |-> Trim(sl[1]), long |-> long_trimmed,
                   long_text_svg |-> LongTextSvg(long_trimmed, env)])

----------------------------------------------------------------------------
(* Node::get_connections *)

\* the class [\w_\s] of ID_RE
IsIdClassChar(c) == IsWordChar(c) \/ IsSpaceChar(c)

\* the class [\w\s_-] of TITLED_ID_RE
IsTitledClassChar(c) == IsWordChar(c) \/ IsSpaceChar(c) \/ c = "-"

RECURSIVE SkipIdClass(_, _)
SkipIdClass(text, j) ==
    IF j <= Len(text) /\ IsIdClassChar(text[j]) THEN SkipIdClass(text, j + 1) ELSE j

RECURSIVE SkipTitledClass(_, _)
SkipTitledClass(text, j) ==
    IF j <= Len(text) /\ IsTitledClassChar(text[j]) THEN SkipTitledClass(text, j + 1) ELSE j

RECURSIVE SkipNotClose(_, _)
SkipNotClose(text, j) ==
    IF j <= Len(text) /\ text[j] # "]" THEN SkipNotClose(text, j + 1) ELSE j

\* ID_RE = \[([\w_\s]*)\][^\(] anchored at i: Some(match) or None
IdMatchAt(text, i) ==
    IF i <= Len(text) /\ text[i] = "["
    THEN LET j == SkipIdClass(text, i + 1)
         IN  IF j + 1 <= Len(text) /\ text[j] = "]" /\ text[j + 1] # "("
             THEN Some([start |-> i, end |-> j + 1, id |-> SubSeq(text, i + 1, j - 1)])
             ELSE None
    ELSE None

\* TITLED_ID_RE = \[[^\]]*\]\(([\w\s_-]*)\) anchored at i: Some(match) or None
TitledMatchAt(text, i) ==
    IF i <= Len(text) /\ text[i] = "["
    THEN LET j == SkipNotClose(text, i + 1)
             k == SkipTitledClass(text, j + 2)
         IN  IF j + 1 <= Len(text) /\ text[j + 1] = "(" /\ k <= Len(text) /\ text[k] = ")"
             THEN Some([start |-> i, end |-> k, id |-> SubSeq(text, j + 2, k - 1)])
             ELSE None
    ELSE None

MatchAt(re, text, i) ==
    IF re = "ID_RE" THEN IdMatchAt(text, i) ELSE TitledMatchAt(text, i)

\* Regex::captures_iter: the leftmost match from pos, then on from its end
RECURSIVE CapturesFrom(_, _, _)
CapturesFrom(re, text, pos) ==
    IF pos > Len(text) THEN <<>>
    ELSE LET m == MatchAt(re, text, pos)
         IN  IF m # None THEN <<m[1]>> \o CapturesFrom(re, text, m[1].end + 1)
             ELSE CapturesFrom(re, text, pos + 1)

\* one captures_iter of the chain, each capture tagged with where it came from
CapturesIter(re, field, text) ==
    LET ms == CapturesFrom(re, text, 1)
    IN  [n \in 1..Len(ms) |->
            [re |-> re, field |-> field, start |-> ms[n].start, end |-> ms[n].end,
             id |-> ms[n].id]]

\* The chain with its two middle iterators exchanged.
ConnectionCapturesByField(node) ==
    CapturesIter("ID_RE", "short", node.short)
        \o CapturesIter("TITLED_ID_RE", "short", node.short)
        \o CapturesIter("ID_RE", "long", node.long)
        \o CapturesIter("TITLED_ID_RE", "long", node.long)

\* the chain of the four captures_iter
ConnectionCaptures(node) ==
    CapturesIter("ID_RE", "short", node.short)
        \o CapturesIter("ID_RE", "long", node.long)
        \o CapturesIter("TITLED_ID_RE", "short", node.short)
        \o CapturesIter("TITLED_ID_RE", "long", node.long)

\* Vec<String>: capture group 1 of every match of the chain
GetConnections(node) ==
    LET caps == ConnectionCaptures(node)
    IN  [n \in 1..Len(caps) |-> caps[n].id]


----------------------------------------------------------------------------
(* Model::read and main *)

\* what Node::parse of entry writes to renderLog
RenderLogOf(n, entry, env) ==
    IF entry.kind = "file"
    THEN LET a == RenderAttempt(Trim(SplitShortLong(entry.content)[2]), env)
         IN  IF a = None THEN <<>>
             ELSE <<[entry |-> n, code |-> a[1].code, result |-> a[1].result]>>
    ELSE <<>>

\* fs::read_dir(dir).map_err(|e| OpenModelError::NotADir)?
OpenDir ==
    /\ pc = "main"
    /\ IF dirOk
       THEN /\ pc' = "read_loop"
            /\ readResult' = readResult
       ELSE /\ pc' = "returned"
            /\ readResult' = Some("NotADir")
    /\ UNCHANGED <<dirOk, dir, idx, files, model, renderLog>>
    /\ UNCHANGED <<serveVars, graphVars, fontVars>>

\* The entry that fails to parse is passed over and the loop goes on.
SkipEntry ==
    /\ files' = files
    /\ UNCHANGED <<pc, readResult>>

\* return Err(OpenModelError::CantParseNode): what was collected is dropped
RejectEntry ==
    /\ files' = <<>>
    /\ pc' = "returned"
    /\ readResult' = Some("CantParseNode")

\* The node goes to the front of the list.
PushFront(nodes, node) == <<node>> \o nodes

\* files.push(node)
PushNode(nodes, node) == Append(nodes, node)

\* One pass of `for file in dir`: push the node, or return CantParseNode.
ParseEntry ==
    /\ pc = "read_loop"
    /\ idx < Len(dir)
    /\ idx' = idx + 1
    /\ \E env \in RenderEnvs :
         LET node == NodeParse(dir[idx + 1], env)
         IN  /\ renderLog' = renderLog \o RenderLogOf(idx + 1, dir[idx + 1], env)
             /\ IF node # None
                THEN /\ files' = PushNode(files, node[1])
                     /\ UNCHANGED <<pc, readResult>>
                ELSE RejectEntry
    /\ UNCHANGED <<dirOk, dir, model>>
    /\ UNCHANGED <<serveVars, graphVars, fontVars>>

\* Ok(Model { nodes: files })
ReturnModel ==
    /\ pc = "read_loop"
    /\ idx = Len(dir)
    /\ model' = Some(files)
    /\ files' = <<>>
    /\ readResult' = Some("Ok")
    /\ pc' = "returned"
    /\ UNCHANGED <<dirOk, dir, idx, renderLog>>
    /\ UNCHANGED <<serveVars, graphVars, fontVars>>

\* main: Model::read(..).unwrap(), then start_server(model), whose bind may fail
StartServer ==
    /\ pc = "returned"
    /\ IF readResult = Some("Ok")
       THEN \E bound \in BOOLEAN : pc' = IF bound THEN "serving" ELSE "exited"
       ELSE pc' = "panicked"
    /\ UNCHANGED <<dirOk, dir, idx, files, readResult, model, renderLog>>
    /\ UNCHANGED <<serveVars, graphVars, fontVars>>

----------------------------------------------------------------------------
(* server.rs *)

\* GET /
HandleIndex ==
    /\ pc = "serving"
    /\ response' = Some([route |-> "/", body |-> <<"index.html">>])
    /\ UNCHANGED <<loadVars, graphVars, fontVars>>

\* Model::get_nodes
ModelGetNodes(nodes) == nodes

\* GET /api/nodes
HandleGetNodes ==
    /\ pc = "serving"
    /\ response' = Some([route |-> "/api/nodes", body |-> ModelGetNodes(model[1])])
    /\ UNCHANGED <<loadVars, graphVars, fontVars>>

\* the body of GET /api/edges: `let data: Vec<Vec<String>> = vec![];`
EdgesBody(nodes) == <<>>

\* GET /api/edges
HandleGetEdges ==
    /\ pc = "serving"
    /\ response' = Some([route |-> "/api/edges", body |-> EdgesBody(model[1])])
    /\ UNCHANGED <<loadVars, graphVars, fontVars>>

----------------------------------------------------------------------------
(* Model::get_edges *)

\* the closure of the par_iter().map(..): one [source id, target id] per connection
NodeEdges(a) ==
    LET conns == GetConnections(a)
    IN  [n \in 1..Len(conns) |-> <<a.id, conns[n]>>]

\* The slot a result lands in when results are pushed as they complete.
SlotByCompletion(i, done) == done + 1

\* collect_into_vec: the item of index i lands in slot i, whenever it is computed
SlotOf(i, done) == i

\* get_edges is entered on a loaded Model: res is reserved, nothing is mapped yet
GetEdgesStart ==
    /\ model # None
    /\ gePc = "idle"
    /\ gePc' = "mapping"
    /\ res' = [i \in 1..Len(model[1]) |-> None]
    /\ mapped' = {}
    /\ edges' = None
    /\ UNCHANGED <<loadVars, serveVars, fontVars>>

\* a worker runs the closure on node i; rayon fixes no order among the nodes
WorkerMap(i) ==
    /\ gePc = "mapping"
    /\ i \in 1..Len(model[1])
    /\ i \notin mapped
    /\ res' = [res EXCEPT ![SlotOf(i, Cardinality(mapped))] = Some(NodeEdges(model[1][i]))]
    /\ mapped' = mapped \cup {i}
    /\ UNCHANGED <<gePc, edges>>
    /\ UNCHANGED <<loadVars, serveVars, fontVars>>

\* res.concat(), once every closure has completed
ConcatRes ==
    /\ gePc = "mapping"
    /\ mapped = 1..Len(model[1])
    /\ edges' = Some(Concat([i \in 1..Len(res) |-> IF res[i] = None THEN <<>> ELSE res[i][1]]))
    /\ gePc' = "done"
    /\ UNCHANGED <<res, mapped>>
    /\ UNCHANGED <<loadVars, serveVars, fontVars>>

----------------------------------------------------------------------------
(* TypstWorld::new *)

\* What reading a family's first font path does: "no_path" (font_paths.first() is
\* None), "read_err" (fs::read fails), "font_err" (Font::new fails), "no_info"
\* (FontInfo::new is None), "ok".
FamilyOutcomes == {"no_path", "read_err", "font_err", "no_info", "ok"}

\* include_bytes! always yields the bytes; Font::new or FontInfo::new may still fail
EmbeddedOutcomes == {"font_err", "no_info", "ok"}

\* The loop goes on after registering a font.
LoopKeepsGoing(loaded) == "system"

\* `break` after the first font that loads
LoopAfter(loaded) == IF loaded THEN "fallback" ELSE "system"

\* one pass of `for (_, font_paths) in fonts_by_family.iter()`
TryFamily ==
    /\ fPc = "system"
    /\ sysFonts = "Ok"
    /\ fIdx < Len(families)
    /\ LET k == fIdx + 1
           loaded == families[k] = "ok"
       IN  /\ fIdx' = k
           /\ tried' = IF families[k] = "no_path" THEN tried
                       ELSE Append(tried, [source |-> "system", family |-> k])
           /\ fonts' = IF loaded THEN Append(fonts, [source |-> "system", family |-> k])
                       ELSE fonts
           /\ font_book' = IF loaded
                           THEN Append(font_book, [info_of |-> [source |-> "system", family |-> k]])
                           ELSE font_book
           /\ fPc' = LoopAfter(loaded)
    /\ UNCHANGED <<sysFonts, families, embedded, worldResult>>
    /\ UNCHANGED <<loadVars, serveVars, graphVars>>

\* the system font search ends without a font: no database, or the families ran out
SystemSearchEnds ==
    /\ fPc = "system"
    /\ sysFonts # "Ok" \/ fIdx = Len(families)
    /\ fPc' = "fallback"
    /\ UNCHANGED <<sysFonts, families, embedded, fIdx, fonts, font_book, tried, worldResult>>
    /\ UNCHANGED <<loadVars, serveVars, graphVars>>

\* "If no fonts were found, use a built-in font"
Fallback ==
    /\ fPc = "fallback"
    /\ IF fonts = <<>>
       THEN /\ tried' = Append(tried, [source |-> "embedded", family |-> 0])
            /\ IF embedded = "ok"
               THEN /\ fonts' = Append(fonts, [source |-> "embedded", family |-> 0])
                    /\ font_book' = Append(font_book, [info_of |-> [source |-> "embedded", family |-> 0]])
               ELSE UNCHANGED <<fonts, font_book>>
       ELSE UNCHANGED <<tried, fonts, font_book>>
    /\ fPc' = "check"
    /\ UNCHANGED <<sysFonts, families, embedded, fIdx, worldResult>>
    /\ UNCHANGED <<loadVars, serveVars, graphVars>>

\* "If still no fonts, return an error", else Ok(Self { .. })
WorldReturn ==
    /\ fPc = "check"
    /\ worldResult' = IF fonts = <<>> THEN Some("NoFonts") ELSE Some("Ok")
    /\ fPc' = "done"
    /\ UNCHANGED <<sysFonts, families, embedded, fIdx, fonts, font_book, tried>>
    /\ UNCHANGED <<loadVars, serveVars, graphVars>>


----------------------------------------------------------------------------
(* Initial states *)

File(name, content) == [kind |-> "file", name |-> name, content |-> content]
Broken(kind) == [kind |-> kind, name |-> <<>>, content |-> <<>>]
BrokenEntries == {Broken("enum_err"), Broken("bad_name"), Broken("unreadable")}

\* a: "[a] [b](b)", a bare reference to itself and a titled one
NoteA == File(<<"a">>, <<"[", "a", "]", " ", "[", "b", "]", "(", "b", ")">>)
\* b: short "c", long "[a].[a].", the same bare reference twice
NoteB == File(<<"b">>, <<"c", "\n", "[", "a", "]", ".", "[", "a", "]", ".">>)
\* a_b: short "c", long "#c", styled and without references
NoteC == File(<<"a", "_", "b">>, <<"c", "\n", "#", "c">>)

SampleEntries == {NoteA, NoteB, NoteC} \cup BrokenEntries

\* file contents made of reference fragments
ConnTokens == {<<"[", "a", "]">>, <<"(", "b", ")">>, <<"[">>, <<".">>, <<"\n">>}
ConnContents == {Concat(ts) : ts \in SeqsUpTo(ConnTokens, MaxTokens)}

\* file contents made of single characters
ParseChars == {"a", " ", "\n", "#", "$"}
ParseContents == SeqsUpTo(ParseChars, MaxChars)
ParseNames == {<<"a", "_", "b">>, <<"a", "B", "-", "c">>}

InitLoad ==
    /\ pc = "main"
    /\ idx = 0
    /\ files = <<>>
    /\ readResult = None
    /\ model = None
    /\ renderLog = <<>>

InitServe == response = None

InitGraph ==
    /\ gePc = "idle"
    /\ res = <<>>
    /\ mapped = {}
    /\ edges = None

InitWorld ==
    /\ fIdx = 0
    /\ fonts = <<>>
    /\ font_book = <<>>
    /\ tried = <<>>
    /\ worldResult = None

\* no TypstWorld::new is being followed
NoWorld ==
    /\ sysFonts = "Ok"
    /\ families = <<>>
    /\ embedded = "ok"
    /\ fPc = "off"
    /\ InitWorld

\* the whole program on a directory of sample notes
Init ==
    /\ dirOk \in BOOLEAN
    /\ dir \in SeqsUpTo(SampleEntries, MaxEntries)
    /\ InitLoad /\ InitServe /\ InitGraph /\ NoWorld

\* one file of arbitrary characters
InitParse ==
    /\ dirOk = TRUE
    /\ \E name \in ParseNames, content \in ParseContents : dir = <<File(name, content)>>
    /\ InitLoad /\ InitServe /\ InitGraph /\ NoWorld

\* one file of reference fragments
InitConn ==
    /\ dirOk = TRUE
    /\ \E content \in ConnContents : dir = <<File(<<"a">>, content)>>
    /\ InitLoad /\ InitServe /\ InitGraph /\ NoWorld

\* one construction of a TypstWorld
InitFonts ==
    /\ dirOk = TRUE
    /\ dir = <<>>
    /\ InitLoad /\ InitServe /\ InitGraph
    /\ sysFonts \in {"Err", "NoDb", "Ok"}
    /\ families \in SeqsUpTo(FamilyOutcomes, MaxFamilies)
    /\ embedded \in EmbeddedOutcomes
    /\ fPc = "system"
    /\ InitWorld

----------------------------------------------------------------------------
(* Specifications *)

NextLoad == OpenDir \/ ParseEntry \/ ReturnModel \/ StartServer
NextServe == HandleIndex \/ HandleGetNodes \/ HandleGetEdges
NextGraph == GetEdgesStart \/ (\E i \in DOMAIN res : WorkerMap(i)) \/ ConcatRes
NextFonts == TryFamily \/ SystemSearchEnds \/ Fallback \/ WorldReturn

Next == NextLoad \/ NextServe \/ NextGraph

Spec == Init /\ [][Next]_vars
SpecParse == InitParse /\ [][NextLoad]_vars
SpecConn == InitConn /\ [][NextLoad \/ NextGraph]_vars
SpecFonts == InitFonts /\ [][NextFonts]_vars


----------------------------------------------------------------------------
(* Definitions the properties are stated with *)

\* the nodes parsed so far: the returned Model's, or the loop's
ParsedNodes == IF model # None THEN model[1] ELSE files

\* Model::read has returned
ReadReturned == readResult # None

AllEntriesParse == \A k \in 1..Len(dir) : dir[k].kind = "file"

\* the edges of the nodes taken one after the other, in Model order
RECURSIVE SequentialEdges(_)
SequentialEdges(nodes) ==
    IF nodes = <<>> THEN <<>>
    ELSE NodeEdges(Head(nodes)) \o SequentialEdges(Tail(nodes))

RECURSIVE SumConnections(_)
SumConnections(nodes) ==
    IF nodes = <<>> THEN 0
    ELSE Len(GetConnections(Head(nodes))) + SumConnections(Tail(nodes))

----------------------------------------------------------------------------
(* Model::read *)

\* C1: Model::read is all-or-nothing.  Once it has returned from an opened
\* directory, an entry that does not parse, at any position and after any number
\* of parsed entries, makes the result CantParseNode with no Model; a Model is
\* returned only when every entry parsed, so no entry is passed over.
C1_AllOrNothing ==
    /\ (ReadReturned /\ dirOk /\ ~AllEntriesParse)
          => (readResult = Some("CantParseNode") /\ model = None)
    /\ model # None => (AllEntriesParse /\ readResult = Some("Ok"))
    /\ readResult = Some("CantParseNode")
          => (idx \in 1..Len(dir) /\ dir[idx].kind # "file"
              /\ \A k \in 1..idx - 1 : dir[k].kind = "file")

\* two entries parsed, the third cannot be read: the load has failed
C1_Witness ==
    /\ Len(dir) = 3
    /\ dir[1].kind = "file" /\ dir[2].kind = "file" /\ dir[3].kind = "unreadable"
    /\ readResult = Some("CantParseNode")
    /\ model = None

\* C2: when every entry parses, Model::read returns a Model with exactly one Node
\* per directory entry, in the order of the enumeration, and the i-th node's id is
\* the i-th entry's file name.
C2_OneNodePerEntryInOrder ==
    /\ (ReadReturned /\ dirOk /\ AllEntriesParse) => model # None
    /\ model # None =>
          /\ Len(model[1]) = Len(dir)
          /\ \A i \in 1..Len(dir) :
                /\ model[1][i].id = dir[i].name
                /\ \E env \in RenderEnvs : Some(model[1][i]) = NodeParse(dir[i], env)
    /\ pc = "read_loop" =>
          /\ Len(files) = idx
          /\ \A i \in 1..idx : files[i].id = dir[i].name

\* a Model of three nodes whose file names are neither sorted nor distinct
C2_Witness ==
    /\ model # None
    /\ Len(model[1]) = 3
    /\ dir[1].name = <<"b">> /\ dir[2].name = <<"a">> /\ dir[3].name = <<"b">>
    /\ model[1][1].id = <<"b">> /\ model[1][2].id = <<"a">>

----------------------------------------------------------------------------
(* Model::get_edges and GET /api/edges *)

\* C3: get_edges returns the concatenation, in Model node order, of each node's
\* edge list [source id, target id], one edge per extracted reference, whatever
\* the order in which the workers ran the per-node closures.
C3_EdgesInModelOrder ==
    /\ gePc = "mapping" =>
          \A i \in mapped : res[i] = Some(NodeEdges(model[1][i]))
    /\ gePc = "done" =>
          /\ edges = Some(SequentialEdges(model[1]))
          /\ Len(edges[1]) = SumConnections(model[1])

\* three nodes, the last one mapped first; the self-reference and the repeated
\* reference are both in the result
C3_Witness ==
    /\ gePc = "done"
    /\ Len(model[1]) = 3
    /\ model[1][1].id = <<"b">> /\ model[1][2].id = <<"a", "_", "b">> /\ model[1][3].id = <<"a">>
    /\ edges = Some(<< <<<<"b">>, <<"a">>>>, <<<<"b">>, <<"a">>>>,
                       <<<<"a">>, <<"a">>>>, <<<<"a">>, <<"b">>>> >>)

\* C4: the body of GET /api/edges is the edge list Model::get_edges computes for
\* the loaded Model.
C4_EdgesServed ==
    (response # None /\ response[1].route = "/api/edges")
        => response[1].body = SequentialEdges(model[1])


----------------------------------------------------------------------------
(* Node::get_connections *)

\* the place of a capture in the claimed order: bare in short, bare in long,
\* titled in short, titled in long
GroupRank(cap) ==
    (IF cap.re = "ID_RE" THEN 0 ELSE 2) + (IF cap.field = "short" THEN 1 ELSE 2)

\* the ids one pattern captures in one text, left to right
IdsOf(re, text) ==
    LET ms == CapturesFrom(re, text, 1)
    IN  [n \in 1..Len(ms) |-> ms[n].id]

\* the targets of the edges get_edges returned for the only node
EdgeTargets == [n \in 1..Len(edges[1]) |-> edges[1][n][2]]

\* C5: get_connections lists the bare matches in short, then the bare matches in
\* long, then the titled matches in short, then the titled matches in long, each
\* group left to right, every match once.
C5_FourGroupsInOrder ==
    (gePc = "done" /\ Len(model[1]) = 1) =>
        LET node == model[1][1]
            caps == ConnectionCaptures(node)
        IN  /\ EdgeTargets = IdsOf("ID_RE", node.short) \o IdsOf("ID_RE", node.long)
                             \o IdsOf("TITLED_ID_RE", node.short)
                             \o IdsOf("TITLED_ID_RE", node.long)
            /\ Len(caps) = Len(EdgeTargets)
            /\ \A p \in 1..Len(caps) : caps[p].id = EdgeTargets[p]
            /\ \A p \in 1..Len(caps), q \in 1..Len(caps) :
                  p < q => \/ GroupRank(caps[p]) < GroupRank(caps[q])
                           \/ /\ GroupRank(caps[p]) = GroupRank(caps[q])
                              /\ caps[p].end < caps[q].start

\* short "[a](b)" and long "[a].": the bare reference of long comes first, the
\* titled reference of short second
C5_Witness ==
    /\ gePc = "done"
    /\ Len(model[1]) = 1
    /\ model[1][1].short = <<"[", "a", "]", "(", "b", ")">>
    /\ model[1][1].long = <<"[", "a", "]", ".">>
    /\ EdgeTargets = << <<"a">>, <<"b">> >>

\* [x] stands at i..j of text, x made of word characters, underscores and spaces
IsBracketToken(text, i, j) ==
    /\ i < j
    /\ text[i] = "["
    /\ text[j] = "]"
    /\ \A k \in i + 1..j - 1 : IsIdClassChar(text[k])

\* the token at i..j is among the bare captures of text
CapturedBare(text, i, j) ==
    \E n \in 1..Len(CapturesFrom("ID_RE", text, 1)) :
        LET m == CapturesFrom("ID_RE", text, 1)[n]
        IN  m.start = i /\ m.id = SubSeq(text, i + 1, j - 1)

BareIffNoParen(text) ==
    \A i \in 1..Len(text), j \in 1..Len(text) :
        IsBracketToken(text, i, j) =>
            (CapturedBare(text, i, j) <=> (j = Len(text) \/ text[j + 1] # "("))

\* C6: every bracketed token [x] of word characters, underscores and spaces in
\* short or long is captured as a bare reference exactly when its closing bracket
\* is not immediately followed by an opening parenthesis, wherever it stands.
C6_BareIffNoParen ==
    \A n \in 1..Len(ParsedNodes) :
        BareIffNoParen(ParsedNodes[n].short) /\ BareIffNoParen(ParsedNodes[n].long)


----------------------------------------------------------------------------
(* Node::parse *)

\* a rendering in which nothing fails
RenderingWorks == [world |-> "Ok", compile |-> "Ok", pages |-> 1]

RenderFailures == {"NoFontsAvailable", "CompileError", "EmptyDocument"}

\* the render_typst_to_svg calls made for entry k
RenderCallsFor(k) == {n \in 1..Len(renderLog) : renderLog[n].entry = k}

\* C7: a rendering failure of any kind never fails node parsing or the load.  The
\* entry whose rendering failed is parsed to a Node with the id, title, short and
\* long it has when rendering works and with long_text_svg = None, and Model::read
\* returns CantParseNode only for an entry that is not a readable file.
C7_RenderFailureIsNotFatal ==
    /\ \A n \in 1..Len(renderLog) :
          LET k == renderLog[n].entry
              good == NodeParse(dir[k], RenderingWorks)[1]
          IN  (renderLog[n].result[1] = "Err" /\ (pc = "read_loop" \/ model # None)) =>
                 /\ renderLog[n].result[2] \in RenderFailures
                 /\ Len(ParsedNodes) >= k
                 /\ ParsedNodes[k].id = good.id
                 /\ ParsedNodes[k].title = good.title
                 /\ ParsedNodes[k].short = good.short
                 /\ ParsedNodes[k].long = good.long
                 /\ ParsedNodes[k].long_text_svg = None
                 /\ good.long_text_svg # None
    /\ (ReadReturned /\ dirOk /\ AllEntriesParse) => readResult = Some("Ok")

\* the document had no page, and the Model with the node was returned
C7_Witness ==
    /\ Len(renderLog) = 1
    /\ renderLog[1].result = <<"Err", "EmptyDocument">>
    /\ readResult = Some("Ok")
    /\ Len(model[1]) = 1
    /\ model[1][1].long_text_svg = None
    /\ model[1][1].long = <<"a", "$">>

\* starts with '#' or contains '$'
ClassifiedStyled(text) ==
    \/ (text # <<>> /\ text[1] = "#")
    \/ \E i \in 1..Len(text) : text[i] = "$"

\* C8: a parsed Node has a rendered body exactly when its trimmed long text
\* starts with '#' or contains '$' and the rendering succeeded; a long text that
\* neither starts with '#' nor contains '$' never reaches the renderer.
C8_RenderedIffStyledAndRendered ==
    \A k \in 1..Len(ParsedNodes) :
        LET node == ParsedNodes[k]
        IN  /\ node.long_text_svg # None <=>
                  /\ ClassifiedStyled(node.long)
                  /\ \E n \in RenderCallsFor(k) : renderLog[n].result[1] = "Ok"
            /\ ~ClassifiedStyled(node.long) =>
                  (RenderCallsFor(k) = {} /\ node.long_text_svg = None)
            /\ \A n \in RenderCallsFor(k) :
                  renderLog[n].result[1] = "Ok" =>
                      node.long_text_svg = Some(renderLog[n].result[2])

\* long "a#" holds a '#' that is not at its start: no rendering, no rendered body
C8_Witness ==
    /\ Len(ParsedNodes) = 1
    /\ ParsedNodes[1].long = <<"a", "#">>
    /\ renderLog = <<>>
    /\ ParsedNodes[1].long_text_svg = None

\* t is s without its leading and trailing whitespace
IsTrimOf(t, s) ==
    /\ t = <<>> \/ (~IsSpaceChar(t[1]) /\ ~IsSpaceChar(t[Len(t)]))
    /\ \E a \in 0..Len(s), b \in 0..Len(s) :
          /\ a + b <= Len(s)
          /\ t = SubSeq(s, a + 1, Len(s) - b)
          /\ \A i \in 1..a : IsSpaceChar(s[i])
          /\ \A i \in Len(s) - b + 1..Len(s) : IsSpaceChar(s[i])

\* C9: short is the text before the first newline and long all the text after it,
\* each trimmed; without a newline short is the whole trimmed content and long is
\* empty.
C9_SplitAtFirstNewline ==
    \A k \in 1..Len(ParsedNodes) :
        LET content == dir[k].content
            node == ParsedNodes[k]
            newlines == {i \in 1..Len(content) : content[i] = "\n"}
        IN  IF newlines = {}
            THEN IsTrimOf(node.short, content) /\ node.long = <<>>
            ELSE \E i \in newlines :
                    /\ \A j \in newlines : i <= j
                    /\ IsTrimOf(node.short, SubSeq(content, 1, i - 1))
                    /\ IsTrimOf(node.long, SubSeq(content, i + 1, Len(content)))

\* content "\na\na": short is empty and the second newline stays inside long
C9_Witness ==
    /\ Len(ParsedNodes) = 1
    /\ dir[1].content = <<"\n", "a", "\n", "a">>
    /\ ParsedNodes[1].short = <<>>
    /\ ParsedNodes[1].long = <<"a", "\n", "a">>


----------------------------------------------------------------------------
(* TypstWorld::new *)

\* the families whose first font loads, when the system font database is there
LoadableFamilies ==
    IF sysFonts = "Ok" THEN {k \in 1..Len(families) : families[k] = "ok"} ELSE {}

SystemFontsRegistered == {n \in 1..Len(fonts) : fonts[n].source = "system"}
SystemTries == {n \in 1..Len(tried) : tried[n].source = "system"}
EmbeddedTries == {n \in 1..Len(tried) : tried[n].source = "embedded"}

\* C10: the font set is built by a strict fallback chain.  Each family gives at
\* most one candidate and the search stops at the first font that loads, so at
\* most one system font is registered; the embedded font is tried only when no
\* system font was registered; construction fails exactly when neither loaded;
\* a constructed environment holds exactly one font, book and list in step.
C10_FontFallbackChain ==
    /\ Len(font_book) = Len(fonts)
    /\ \A n \in 1..Len(fonts) : font_book[n].info_of = fonts[n]
    /\ Cardinality(SystemFontsRegistered) <= 1
    /\ \A m \in SystemTries, n \in SystemTries : m < n => tried[m].family < tried[n].family
    /\ \A n \in SystemTries :
          /\ families[tried[n].family] # "no_path"
          /\ \A k \in LoadableFamilies : tried[n].family <= k
    /\ \A n \in SystemFontsRegistered :
          /\ fonts[n].family \in LoadableFamilies
          /\ \A k \in LoadableFamilies : fonts[n].family <= k
    /\ EmbeddedTries # {} => (SystemFontsRegistered = {} /\ Cardinality(EmbeddedTries) = 1)
    /\ fPc \in {"check", "done"} =>
          /\ EmbeddedTries # {} <=> LoadableFamilies = {}
          /\ SystemFontsRegistered # {} <=> LoadableFamilies # {}
    /\ fPc = "done" =>
          /\ worldResult = Some("NoFonts") <=> (LoadableFamilies = {} /\ embedded # "ok")
          /\ worldResult = Some("Ok") <=> ~(LoadableFamilies = {} /\ embedded # "ok")
          /\ worldResult = Some("Ok") => Len(fonts) = 1
          /\ worldResult = Some("NoFonts") => fonts = <<>>

\* the second of three loadable families is the first whose font loads: it alone
\* is registered, the third is never tried, nor is the embedded font
C10_Witness ==
    /\ fPc = "done"
    /\ sysFonts = "Ok"
    /\ families = <<"font_err", "ok", "ok">>
    /\ fonts = <<[source |-> "system", family |-> 2]>>
    /\ Len(tried) = 2
    /\ worldResult = Some("Ok")


====
